---- MODULE Spec2Model ----
(***************************************************************************)
(* Model of client/v2_2/docker_http_.py: the Transport of the v2 registry  *)
(* client.  Process 0 is the caller constructing the Transport (__init__,  *)
(* _Ping, the eager _Refresh); processes 1..NumThreads are threads calling *)
(* Request on the constructed Transport.  The registry and the token realm *)
(* are the environment: every response is a nondeterministic choice.       *)
(*                                                                         *)
(* Spec is the whole life of one Transport used by one caller: its         *)
(* construction from every ping response, then Request and                 *)
(* PaginatedRequest calls one after the other.  SpecConc is a constructed  *)
(* Transport shared by NumThreads threads whose Request calls interleave.  *)
(* SpecPage is one caller of a Transport whose registry serves a chain of  *)
(* linked pages, SpecBody one caller of a Transport whose registry answers *)
(* with any body; in the other specifications the bodies are empty.        *)
(***************************************************************************)
EXTENDS Naturals, Sequences, FiniteSets, TLC

\* ---------------------------------------------------------------- bounds
NumThreads == 2
MaxCalls == 2
MaxPages == 3

\* The constructing caller is process 0, the Request threads are 1..NumThreads.
Ctor == 0
Threads == 1..NumThreads
Procs == {Ctor} \cup Threads

\* ------------------------------------------------------ program constants
PULL == "pull"
PUSH == "push,pull"
DELETE == PUSH
CATALOG == "catalog"
ACTION_LIST == {PULL, PUSH, DELETE, CATALOG}

_ANONYMOUS == ""
_BASIC == "Basic"
_BEARER == "Bearer"

_REALM_PFX == "realm="
_SERVICE_PFX == "service="

OK == 200
UNAUTHORIZED == 401

\* --------------------------------------------------------- value domains
\* Python's None, and the absence of an attribute on the Transport object.
None == "<None>"
Unset == "<unset>"

\* self._name.registry
Registry == "registry.example"

\* Credential objects (docker_creds.Anonymous, the client's Basic credential,
\* v2_2_creds.Bearer(token)) and the header value their Get() produces.
NoCreds == [kind |-> "Unset", secret |-> ""]
AnonymousCreds == [kind |-> "Anonymous", secret |-> ""]
BasicCreds == [kind |-> "Basic", secret |-> "dXNlcjpwYXNz"]
Bearer(token) == [kind |-> "Bearer", secret |-> token]

NoHeader == [scheme |-> "", value |-> ""]
Get(c) ==
  IF c.kind = "Anonymous" THEN NoHeader
  ELSE [scheme |-> c.kind, value |-> c.secret]

\* ------------------------------------------------------ environment inputs
ActionInputs == ACTION_LIST \cup {"bogus"}
PingStatuses == {200, 401, 500}
Statuses == {200, 401, 404}
AcceptedSets == {{200}, {200, 401}}

\* A www-authenticate challenge "<scheme> <t1>,<t2>,...": the scheme word, whether
\* a space follows it, and the comma-separated tokens, each a prefix and a quoted
\* value.
Schemes == {"Bearer", "bearer", "Basic", "BASIC", "Digest"}
Realm1 == "https://auth.example/token"
Service1 == "registry-service"
Tok(pfx, val) == [pfx |-> pfx, quoted |-> TRUE, val |-> val]
ParamLists ==
  { << Tok(_REALM_PFX, Realm1), Tok(_SERVICE_PFX, Service1) >>,
    << Tok(_REALM_PFX, Realm1) >>,
    << Tok(_SERVICE_PFX, Service1) >>,
    << Tok(_REALM_PFX, "") >>,
    << Tok("scope=", "x") >> }
NoChallenge == [present |-> FALSE, scheme |-> "", space |-> FALSE, params |-> << >>]
Challenges ==
  { [present |-> TRUE, scheme |-> s, space |-> TRUE, params |-> ps] :
      s \in Schemes, ps \in ParamLists }
  \cup { [present |-> TRUE, scheme |-> "Bearer", space |-> FALSE, params |-> << >>] }
  \cup { NoChallenge }

\* Token-exchange responses: a status and a body that is not JSON, JSON that is
\* not an object, or a JSON object with optional "token" / "access_token".
\* A field that is absent (or null) reads as None.
Json(a, b) == [json |-> "object", token |-> a, access_token |-> b]
TokenBodies ==
  { [json |-> "invalid", token |-> None, access_token |-> None],
    [json |-> "array", token |-> None, access_token |-> None],
    Json(None, None),
    Json("", None),
    Json("abc", None),
    Json("xyz", None),
    Json(None, "abc"),
    Json("", "xyz"),
    Json("abc", "xyz") }
NoBody == [json |-> "none", token |-> None, access_token |-> None]
TokenStatuses == {200, 401}

\* A Python value that is bytes, text or None, identified by what it spells.
Bytes(s) == [form |-> "bytes", text |-> s]
Str(s) == [form |-> "str", text |-> s]
NoneVal == [form |-> "none", text |-> ""]

\* The elements of an "errors" value: a JSON object with optional code, message
\* and detail, or something that is not an object.
ErrorObject(c, m, d) == [obj |-> TRUE, code |-> c, message |-> m, detail |-> d]
NotAnObject == [obj |-> FALSE, code |-> NoneVal, message |-> NoneVal, detail |-> NoneVal]
NoErrors == [kind |-> "absent", items |-> << >>]

\* A response body: its Python form (bytes or already text), whether the bytes
\* are UTF-8, what it spells, what json.loads makes of the text (nothing, a
\* value that is not an object, an object) and the object's "errors": absent, a
\* scalar, a string (iterating it gives its characters) or a list.
Body(form, utf8, text, json, errors) ==
  [form |-> form, utf8 |-> utf8, text |-> text, json |-> json, errors |-> errors]
EmptyBody == Body("bytes", TRUE, "", "invalid", NoErrors)
Denied == ErrorObject(Str("DENIED"), Str("access denied"), Str("repo:x"))
Contents ==
  { EmptyBody,
    Body("bytes", TRUE, "oops", "invalid", NoErrors),
    Body("bytes", FALSE, "\\xff", "invalid", NoErrors),
    Body("str", TRUE, "oops", "invalid", NoErrors),
    Body("bytes", TRUE, "[]", "array", NoErrors),
    Body("bytes", TRUE, "{}", "object", NoErrors),
    Body("bytes", TRUE, "{\"errors\":5}", "object",
         [kind |-> "scalar", items |-> << >>]),
    Body("bytes", TRUE, "{\"errors\":\"x\"}", "object",
         [kind |-> "string", items |-> << NotAnObject >>]),
    Body("bytes", TRUE, "{\"errors\":[{DENIED}]}", "object",
         [kind |-> "list", items |-> << Denied >>]),
    Body("bytes", TRUE, "{\"errors\":[{DENIED},\"x\"]}", "object",
         [kind |-> "list", items |-> << Denied, NotAnObject >>]) }

\* URLs are page numbers; 0 stands for None.  A Link header is absent or a list
\* of links <url>; rel="...".
NoUrl == 0
NoLink == [present |-> FALSE, entries |-> << >>]
Link(entries) == [present |-> TRUE, entries |-> entries]
LinkTo(u, rel) == [url |-> u, rel |-> rel]

\* self._transport, the HTTP client under the Transport, as far as the registry
\* behind it goes: the bodies it delivers, and for each URL it serves the Link
\* headers it may put on the response.
Plain == [contents |-> {EmptyBody}, links |-> [u \in {1} |-> {NoLink}]]
AnyBody == [contents |-> Contents, links |-> [u \in {1} |-> {NoLink}]]
\* n linked pages: each page but the last links to the following one.
Chain(n) ==
  [contents |-> {EmptyBody},
   links |-> [u \in 1..n |->
                IF u < n
                THEN { Link(<< LinkTo(u + 1, "next") >>) }
                     \cup (IF u = 1 THEN {}
                           ELSE { Link(<< LinkTo(u - 1, "prev"), LinkTo(u + 1, "next") >>) })
                ELSE { NoLink }
                     \cup (IF u = 1 THEN {} ELSE { Link(<< LinkTo(u - 1, "prev") >>) })]]

\* ------------------------------------------------------------------ state
VARIABLES
  action,          \* self._action
  authentication,  \* self._authentication
  realm,           \* self._realm
  service,         \* self._service
  transport,       \* self._transport
  creds,           \* self._creds
  lock,            \* self._lock: the set of processes holding it (at most one)
  pc,              \* each process's position in __init__ / Request / _Refresh
  ping,            \* _Ping: resp.status and the www-authenticate challenge
  flags,           \* Request: what is left of [self._authentication == _BEARER, False]
  accepted,        \* Request: accepted_codes
  auth,            \* Request: auth = self._creds.Get(), the header of the attempt
  status,          \* Request: resp.status of the latest attempt
  content,         \* _Refresh: resp.status and the decoded body of the exchange
  token,           \* _Refresh: token, kept until the process's next attempt is sent
  outcome,         \* how the call ended: "returned" or the exception raised
  trace,           \* history: the network calls of the current call, in order
  access,          \* history: the process's latest access of self._creds
  exchanges,       \* history: Authorization headers of the token exchanges so far
  calls,           \* history: number of calls started on the Transport
  url,             \* Request: url
  resp,            \* Request: the Link header and the body of the latest response
  received,        \* history: the responses to the attempts of the current call
  result,          \* what Request handed to its caller, returning or raising
  issued,          \* history: the tokens returned to the refreshes that followed a 401
  gen,             \* PaginatedRequest: the position of the generator
  next_page,       \* PaginatedRequest: next_page
  yielded,         \* history: the pages the generator yielded, in order
  asked            \* history: how many elements the consumer asked for

vars == << action, authentication, realm, service, transport, creds, lock, pc, ping,
           flags, accepted, auth, status, content, token, outcome, trace, access,
           exchanges, calls, url, resp, received, result, issued, gen, next_page,
           yielded, asked >>

fields == << action, authentication, realm, service, transport >>
locals == << flags, accepted, auth, status, content, token >>
request == << url, resp, received, result >>
paging == << gen, next_page, yielded, asked >>

\* ------------------------------------------------------------ pure helpers
\* str.capitalize() on the scheme words the registry may send.
Capitalize(s) ==
  CASE s \in {"Bearer", "bearer", "BEARER"} -> "Bearer"
    [] s \in {"Basic", "basic", "BASIC"} -> "Basic"
    [] s \in {"Digest", "digest", "DIGEST"} -> "Digest"
    [] OTHER -> s

\* t[len(pfx):].strip('"')
Strip(t) == t.val

\* The loop over remainder.split(','): the last token with the prefix wins.
RECURSIVE ScanRealm(_, _)
ScanRealm(tokens, cur) ==
  IF tokens = << >> THEN cur
  ELSE ScanRealm(Tail(tokens),
                 IF Head(tokens).pfx = _REALM_PFX THEN Strip(Head(tokens)) ELSE cur)

RECURSIVE ScanService(_, _)
ScanService(tokens, cur) ==
  IF tokens = << >> THEN cur
  ELSE ScanService(Tail(tokens),
                   IF Head(tokens).pfx = _REALM_PFX THEN cur
                   ELSE IF Head(tokens).pfx = _SERVICE_PFX THEN Strip(Head(tokens))
                   ELSE cur)

\* Python truthiness of a token value and `a or b`.
Truthy(v) == v # None /\ v # ""
PyOr(a, b) == IF Truthy(a) THEN a ELSE b

\* wrapper_object.get('token') or wrapper_object.get('access_token')
ExtractToken(body) == PyOr(body.token, body.access_token)

\* The history of the current call: request attempts and token exchanges.
Attempt(s) == [ev |-> "attempt", status |-> s]
RefreshEv(s) == [ev |-> "refresh", status |-> s]
Attempts(p) == SelectSeq(trace[p], LAMBDA e : e.ev = "attempt")
Refreshes(p) == SelectSeq(trace[p], LAMBDA e : e.ev = "refresh")
Kinds(p) == [i \in 1..Len(trace[p]) |-> trace[p][i].ev]
AttemptStatuses(p) == [i \in 1..Len(Attempts(p)) |-> Attempts(p)[i].status]

NoAccess == [op |-> "none", locked |-> FALSE]
NoContent == [status |-> 0, body |-> NoBody]
NoPing == [status |-> 0, challenge |-> NoChallenge, sent |-> {}]

\* The headers of the ping request.
PingHeaders == {"content-type", "user-agent"}

\* A response of the registry, and what Request hands to its caller: the
\* response and body it returns, or the response and the diagnostics of the
\* V2DiagnosticException it raises.
Response(st, link, c) == [status |-> st, link |-> link, content |-> c]
NoResp == [link |-> NoLink, content |-> EmptyBody]
Handed(st, r, diagnostics) ==
  [status |-> st, link |-> r.link, content |-> r.content, diagnostics |-> diagnostics]
NoResult == Handed(0, NoResp, << >>)

\* content.decode('utf8') inside try/except: bytes that are UTF-8 become text,
\* anything else is left as it is.
Decode(c) == IF c.form = "bytes" /\ c.utf8 THEN [c EXCEPT !.form = "str"] ELSE c

\* The Python value of a body, as the message of a Diagnostic holds it.
Value(c) == [form |-> c.form, text |-> c.text]
Unknown(c) == ErrorObject(Str("UNKNOWN"), Value(c), NoneVal)

\* _DiagnosticsFromContent: one Diagnostic per element of o.get('errors', []);
\* whatever json.loads, o.get or the iteration raises gives the single UNKNOWN
\* Diagnostic.
_DiagnosticsFromContent(c) ==
  LET decoded == Decode(c) IN
  IF decoded.form # "str" \/ decoded.json # "object" \/ decoded.errors.kind = "scalar"
  THEN << Unknown(decoded) >>
  ELSE decoded.errors.items

\* V2DiagnosticException(resp, content): __init__ reads d.message and d.detail
\* of every Diagnostic, which is self._error.get(...): an element that is not a
\* JSON object has no get, and the AttributeError leaves __init__.
V2DiagnosticException(c) ==
  LET diagnostics == _DiagnosticsFromContent(c) IN
  IF \A i \in DOMAIN diagnostics : diagnostics[i].obj
  THEN [exc |-> "V2DiagnosticException", diagnostics |-> diagnostics]
  ELSE [exc |-> "AttributeError", diagnostics |-> << >>]

\* Mutant: the first link is followed, whatever its rel.
ParseNextLinkHeader_AnyRel(r) ==
  IF ~r.link.present \/ r.link.entries = << >> THEN NoUrl
  ELSE r.link.entries[1].url

\* ParseNextLinkHeader: re.match(r'.*<(.+)>;\s*rel="next".*', link); the leading
\* .* is greedy, so of several links with rel="next" the last one is taken.
ParseNextLinkHeader(r) ==
  LET entries == r.link.entries
      nexts == {i \in DOMAIN entries : entries[i].rel = "next"} IN
  IF ~r.link.present \/ entries = << >> \/ nexts = {} THEN NoUrl
  ELSE entries[CHOOSE i \in nexts : \A j \in nexts : j <= i].url

\* ------------------------------------------------------------------- Init
\* Before __init__ runs: no attribute of the Transport is set yet.
Init ==
  /\ action \in ActionInputs
  /\ transport = Plain
  /\ authentication = Unset
  /\ realm = Unset
  /\ service = Unset
  /\ creds = NoCreds
  /\ lock = {}
  /\ pc = [p \in Procs |-> IF p = Ctor THEN "new" ELSE "idle"]
  /\ ping = NoPing
  /\ flags = [p \in Procs |-> << >>]
  /\ accepted = [p \in Procs |-> {}]
  /\ auth = [p \in Procs |-> NoHeader]
  /\ status = [p \in Procs |-> 0]
  /\ content = [p \in Procs |-> NoContent]
  /\ token = [p \in Procs |-> None]
  /\ outcome = [p \in Procs |-> "none"]
  /\ trace = [p \in Procs |-> << >>]
  /\ access = [p \in Procs |-> NoAccess]
  /\ exchanges = {}
  /\ calls = 0
  /\ url = [p \in Procs |-> 1]
  /\ resp = [p \in Procs |-> NoResp]
  /\ received = [p \in Procs |-> << >>]
  /\ result = [p \in Procs |-> NoResult]
  /\ issued = {}
  /\ gen = [p \in Procs |-> "none"]
  /\ next_page = [p \in Procs |-> NoUrl]
  /\ yielded = [p \in Procs |-> << >>]
  /\ asked = [p \in Procs |-> 0]

\* An exception leaving the call of process p (__init__ fails, or Request
\* raises): the locals of the frames it unwinds are gone.
Raise(p, exc) ==
  /\ pc' = [pc EXCEPT ![p] = IF p = Ctor THEN "failed" ELSE "done"]
  /\ outcome' = [outcome EXCEPT ![p] = exc]
  /\ flags' = [flags EXCEPT ![p] = << >>]
  /\ auth' = [auth EXCEPT ![p] = NoHeader]
  /\ content' = [content EXCEPT ![p] = NoContent]
  /\ token' = [token EXCEPT ![p] = None]

\* ----------------------------------------------------------- construction
\* __init__, up to the _CheckState on the action.
CheckAction ==
  /\ pc[Ctor] = "new"
  /\ IF action \in ACTION_LIST
     THEN /\ pc' = [pc EXCEPT ![Ctor] = "ping"]
          /\ UNCHANGED << outcome, flags, auth, content, token >>
     ELSE Raise(Ctor, "BadStateException")
  /\ UNCHANGED << fields, creds, lock, ping, accepted, status, trace, access,
                  exchanges, calls, request, issued, paging >>

\* _Ping: what is made of the response: the exception raised, if any, and the
\* attributes as assigned up to there.
PingResult(st, ch) ==
  LET scheme == Capitalize(ch.scheme)
      newRealm == ScanRealm(ch.params, realm)
      newService == ScanService(ch.params, Registry)
  IN
  IF st \notin {OK, UNAUTHORIZED}
    THEN [exc |-> "BadStateException", a |-> authentication, r |-> realm, s |-> service]
  ELSE IF st = OK
    THEN [exc |-> "none", a |-> _ANONYMOUS, r |-> "none", s |-> "none"]
  ELSE IF ~ch.present
    THEN [exc |-> "KeyError", a |-> authentication, r |-> realm, s |-> service]
  ELSE IF ~ch.space
    THEN [exc |-> "BadStateException", a |-> authentication, r |-> realm, s |-> service]
  ELSE IF scheme \notin {_BASIC, _BEARER}
    THEN [exc |-> "BadStateException", a |-> scheme, r |-> realm, s |-> service]
  ELSE IF newRealm = Unset
    THEN [exc |-> "AttributeError", a |-> scheme, r |-> newRealm, s |-> newService]
  ELSE IF newRealm = ""
    THEN [exc |-> "BadStateException", a |-> scheme, r |-> newRealm, s |-> newService]
  ELSE [exc |-> "none", a |-> scheme, r |-> newRealm, s |-> newService]

\* _Ping: the GET of /v2/ and its response.  A 401 carries any challenge, or none.
Ping ==
  /\ pc[Ctor] = "ping"
  /\ \E st \in PingStatuses :
     \E ch \in (IF st = UNAUTHORIZED THEN Challenges ELSE {NoChallenge}) :
       LET res == PingResult(st, ch) IN
       /\ ping' = [status |-> st, challenge |-> ch, sent |-> PingHeaders]
       /\ authentication' = res.a
       /\ realm' = res.r
       /\ service' = res.s
       /\ IF res.exc = "none"
          THEN /\ pc' = [pc EXCEPT ![Ctor] = "pinged"]
               /\ UNCHANGED << outcome, flags, auth, content, token >>
          ELSE Raise(Ctor, res.exc)
  /\ UNCHANGED << action, transport, creds, lock, accepted, status, trace, access,
                  exchanges, calls, request, issued, paging >>

\* Mutant: __init__ refreshes eagerly whatever the mode.
Adopt_RefreshAlways ==
  /\ pc[Ctor] = "pinged"
  /\ ping' = [ping EXCEPT !.challenge = NoChallenge]
  /\ pc' = [pc EXCEPT ![Ctor] = "refresh"]
  /\ UNCHANGED << fields, creds, lock, locals, outcome, trace, access, exchanges,
                  calls, request, issued, paging >>

\* Mutant: __init__ adopts the caller's credential only after a refresh, and is
\* anonymous otherwise.
Adopt_BasicAnonymous ==
  /\ pc[Ctor] = "pinged"
  /\ ping' = [ping EXCEPT !.challenge = NoChallenge]
  /\ IF authentication = _BEARER
     THEN /\ pc' = [pc EXCEPT ![Ctor] = "refresh"]
          /\ UNCHANGED creds
     ELSE /\ pc' = [pc EXCEPT ![Ctor] = "constructed"]
          /\ creds' = AnonymousCreds
  /\ UNCHANGED << fields, lock, locals, outcome, trace, access, exchanges, calls, request, issued, paging >>

\* __init__ after _Ping returned (its challenge is out of scope): refresh
\* eagerly in Bearer mode, or adopt the credential.
Adopt ==
  /\ pc[Ctor] = "pinged"
  /\ ping' = [ping EXCEPT !.challenge = NoChallenge]
  /\ IF authentication = _BEARER
     THEN /\ pc' = [pc EXCEPT ![Ctor] = "refresh"]
          /\ UNCHANGED creds
     ELSE /\ pc' = [pc EXCEPT ![Ctor] = "constructed"]
          /\ creds' = IF authentication = _BASIC THEN BasicCreds ELSE AnonymousCreds
  /\ UNCHANGED << fields, lock, locals, outcome, trace, access, exchanges, calls, request, issued, paging >>

\* ---------------------------------------------------------------- _Refresh
\* Mutant: only a server error counts as a failed exchange.
TokenOk_Lax(st) == st < 500

\* if resp.status != OK: raise TokenRefreshException
TokenOk(st) == st = OK

\* Mutant: Request swallows the error of _Refresh and goes on to the check of
\* the response it has.
RefreshFailure_Swallowed(p, exc) ==
  IF p = Ctor THEN Raise(p, exc)
  ELSE /\ pc' = [pc EXCEPT ![p] = "check"]
       /\ content' = [content EXCEPT ![p] = NoContent]
       /\ UNCHANGED << outcome, flags, auth, token >>

\* An exception raised in _Refresh: neither _Refresh nor Request's retry path
\* catches it, so it leaves the call.
RefreshFailure(p, exc) == Raise(p, exc)

\* Mutant: the exchange authenticates with the credential in use.
RefreshAuthorization_Current ==
  IF creds.kind = "Bearer" THEN Get(creds) ELSE Get(BasicCreds)

\* 'Authorization': self._basic_creds.Get()
RefreshAuthorization == Get(BasicCreds)

\* The token exchange: the GET to the realm, with the Authorization header of
\* self._basic_creds, and what is made of its response, up to `with self._lock`.
Exchange(p) ==
  /\ pc[p] = "refresh"
  /\ \E st \in TokenStatuses :
     \E body \in (IF st = OK THEN TokenBodies ELSE {NoBody}) :
       LET tok == ExtractToken(body) IN
       /\ exchanges' = exchanges \cup {RefreshAuthorization}
       /\ trace' = [trace EXCEPT ![p] = Append(@, RefreshEv(st))]
       /\ issued' = IF p \in Threads /\ TokenOk(st) /\ body.json = "object" /\ tok # None
                    THEN issued \cup {tok} ELSE issued
       /\ IF ~TokenOk(st)
            THEN RefreshFailure(p, "TokenRefreshException")
          ELSE IF body.json = "invalid"
            THEN RefreshFailure(p, "ValueError")
          ELSE IF body.json # "object"
            THEN RefreshFailure(p, "AttributeError")
          ELSE IF tok = None
            THEN RefreshFailure(p, "BadStateException")
          ELSE /\ content' = [content EXCEPT ![p] = [status |-> st, body |-> body]]
               /\ token' = [token EXCEPT ![p] = tok]
               /\ pc' = [pc EXCEPT ![p] = "lock"]
               /\ UNCHANGED << outcome, flags, auth >>
  /\ UNCHANGED << fields, creds, lock, ping, accepted, status, access, calls,
                  request, paging >>

\* with self._lock: entered once the lock is free.
Acquire(p) ==
  /\ pc[p] = "lock"
  /\ lock = {}
  /\ lock' = {p}
  /\ pc' = [pc EXCEPT ![p] = "assign"]
  /\ UNCHANGED << fields, creds, ping, locals, outcome, trace, access,
                  exchanges, calls, request, issued, paging >>

\* Mutant: a thread that finds a bearer credential in place keeps it.
Assign_KeepInstalled(p) ==
  /\ pc[p] = "assign"
  /\ creds' = IF creds.kind = "Bearer" THEN creds ELSE Bearer(token[p])
  /\ access' = [access EXCEPT ![p] = [op |-> "write", locked |-> p \in lock]]
  /\ pc' = [pc EXCEPT ![p] = "unlock"]
  /\ UNCHANGED << fields, lock, ping, locals, outcome, trace, exchanges, calls, request, issued, paging >>

\* self._creds = v2_2_creds.Bearer(token)
Assign(p) ==
  /\ pc[p] = "assign"
  /\ creds' = Bearer(token[p])
  /\ access' = [access EXCEPT ![p] = [op |-> "write", locked |-> p \in lock]]
  /\ pc' = [pc EXCEPT ![p] = "unlock"]
  /\ UNCHANGED << fields, lock, ping, locals, outcome, trace, exchanges, calls, request, issued, paging >>

\* The end of the with block and of _Refresh: __init__ is done, Request's loop
\* continues with the next retry_unauthorized flag.
Release(p) ==
  /\ pc[p] = "unlock"
  /\ lock' = lock \ {p}
  /\ content' = [content EXCEPT ![p] = NoContent]
  /\ IF p = Ctor
     THEN /\ pc' = [pc EXCEPT ![p] = "constructed"]
          /\ UNCHANGED flags
     ELSE /\ flags' = [flags EXCEPT ![p] = Tail(@)]
          /\ pc' = [pc EXCEPT ![p] = IF Tail(flags[p]) = << >> THEN "check" ELSE "loop"]
  /\ UNCHANGED << fields, creds, ping, accepted, auth, status, token, outcome,
                  trace, access, exchanges, calls, request, issued, paging >>

\* ----------------------------------------------------------------- Request
\* Mutant: a second retry is allowed.
RetryFlags_Twice == << authentication = _BEARER, authentication = _BEARER, FALSE >>

\* Mutant: the retry does not depend on the mode.
RetryFlags_AnyMode == << TRUE, FALSE >>

\* Mutant: the retry is spent once a refresh has been made on a 401.
RetryFlags_SpentOnce == << authentication = _BEARER /\ issued = {}, FALSE >>

\* for retry_unauthorized in [self._authentication == _BEARER, False]
RetryFlags == << authentication = _BEARER, FALSE >>

\* A thread calls Request on the constructed Transport.
Call(t) ==
  /\ pc[Ctor] = "constructed"
  /\ pc[t] \in {"idle", "done"}
  /\ gen[t] \notin {"created", "running", "suspended"}
  /\ calls < MaxCalls
  /\ calls' = calls + 1
  /\ \E acc \in AcceptedSets : accepted' = [accepted EXCEPT ![t] = acc]
  /\ \E u \in DOMAIN transport.links : url' = [url EXCEPT ![t] = u]
  /\ flags' = [flags EXCEPT ![t] = RetryFlags]
  /\ status' = [status EXCEPT ![t] = 0]
  /\ outcome' = [outcome EXCEPT ![t] = "none"]
  /\ trace' = [trace EXCEPT ![t] = << >>]
  /\ access' = [access EXCEPT ![t] = NoAccess]
  /\ received' = [received EXCEPT ![t] = << >>]
  /\ result' = [result EXCEPT ![t] = NoResult]
  /\ pc' = [pc EXCEPT ![t] = "loop"]
  /\ UNCHANGED << fields, creds, lock, ping, auth, content, token, exchanges,
                  resp, issued, paging >>

\* Mutant: the retry is sent with the credential the client supplied.
ReadCreds_Original(t) ==
  /\ pc[t] = "loop"
  /\ auth' = [auth EXCEPT ![t] = IF trace[t] = << >> THEN Get(creds) ELSE Get(BasicCreds)]
  /\ access' = [access EXCEPT ![t] = [op |-> "read", locked |-> t \in lock]]
  /\ pc' = [pc EXCEPT ![t] = "issue"]
  /\ UNCHANGED << fields, creds, lock, ping, flags, accepted, status, content,
                  token, outcome, trace, exchanges, calls, request, issued, paging >>

\* Mutant: the read of self._creds is hoisted out of the loop.
ReadCreds_Hoisted(t) ==
  /\ pc[t] = "loop"
  /\ auth' = [auth EXCEPT ![t] = IF trace[t] = << >> THEN Get(creds) ELSE @]
  /\ access' = [access EXCEPT ![t] = [op |-> "read", locked |-> t \in lock]]
  /\ pc' = [pc EXCEPT ![t] = "issue"]
  /\ UNCHANGED << fields, creds, lock, ping, flags, accepted, status, content,
                  token, outcome, trace, exchanges, calls, request, issued, paging >>

\* auth = self._creds.Get(), at the top of each iteration; the request is then
\* built and sent with it.
ReadCreds(t) ==
  /\ pc[t] = "loop"
  /\ auth' = [auth EXCEPT ![t] = Get(creds)]
  /\ access' = [access EXCEPT ![t] = [op |-> "read", locked |-> t \in lock]]
  /\ pc' = [pc EXCEPT ![t] = "issue"]
  /\ UNCHANGED << fields, creds, lock, ping, flags, accepted, status, content,
                  token, outcome, trace, exchanges, calls, request, issued, paging >>

\* Mutant: a 401 that the caller accepts is not retried.
Retries_UnlessAccepted(retry_unauthorized, st) ==
  /\ retry_unauthorized
  /\ st = UNAUTHORIZED
  /\ \A t \in Threads : pc[t] = "issue" => UNAUTHORIZED \notin accepted[t]

\* Whether the iteration ends in `self._Refresh(); continue` rather than `break`.
Retries(retry_unauthorized, st) == retry_unauthorized /\ st = UNAUTHORIZED

\* Mutant: Request takes the lock before it calls _Refresh.
Issue_LockedRefresh(t) ==
  /\ pc[t] = "issue"
  /\ \E st \in Statuses, c \in transport.contents, link \in transport.links[url[t]] :
       /\ status' = [status EXCEPT ![t] = st]
       /\ resp' = [resp EXCEPT ![t] = [link |-> link, content |-> c]]
       /\ trace' = [trace EXCEPT ![t] = Append(@, Attempt(st))]
       /\ received' = [received EXCEPT ![t] = Append(@, Response(st, link, c))]
       /\ lock' = IF Retries(Head(flags[t]), st) THEN lock \cup {t} ELSE lock
       /\ pc' = [pc EXCEPT ![t] =
                   IF Retries(Head(flags[t]), st) THEN "refresh" ELSE "check"]
  /\ token' = [token EXCEPT ![t] = None]
  /\ UNCHANGED << fields, creds, ping, flags, accepted, auth, content,
                  outcome, access, exchanges, calls, url, result, issued, paging >>

\* Mutant: a 401 makes Request take the mode anew from the response.
Issue_Rederive(t) ==
  /\ pc[t] = "issue"
  /\ \E st \in Statuses, c \in transport.contents, link \in transport.links[url[t]] :
       /\ status' = [status EXCEPT ![t] = st]
       /\ resp' = [resp EXCEPT ![t] = [link |-> link, content |-> c]]
       /\ trace' = [trace EXCEPT ![t] = Append(@, Attempt(st))]
       /\ received' = [received EXCEPT ![t] = Append(@, Response(st, link, c))]
       /\ authentication' = IF st = UNAUTHORIZED THEN _BEARER ELSE authentication
       /\ pc' = [pc EXCEPT ![t] =
                   IF Retries(Head(flags[t]), st) THEN "refresh" ELSE "check"]
  /\ token' = [token EXCEPT ![t] = None]
  /\ UNCHANGED << action, realm, service, transport, creds, lock, ping, flags,
                  accepted, auth, content, outcome, access, exchanges, calls, url,
                  result, issued, paging >>

\* The response of self._transport.request(url, ...) and the test on it.
Issue(t) ==
  /\ pc[t] = "issue"
  /\ \E st \in Statuses, c \in transport.contents, link \in transport.links[url[t]] :
       /\ status' = [status EXCEPT ![t] = st]
       /\ resp' = [resp EXCEPT ![t] = [link |-> link, content |-> c]]
       /\ trace' = [trace EXCEPT ![t] = Append(@, Attempt(st))]
       /\ received' = [received EXCEPT ![t] = Append(@, Response(st, link, c))]
       /\ pc' = [pc EXCEPT ![t] =
                   IF Retries(Head(flags[t]), st) THEN "refresh" ELSE "check"]
  /\ token' = [token EXCEPT ![t] = None]
  /\ UNCHANGED << fields, creds, lock, ping, flags, accepted, auth, content,
                  outcome, access, exchanges, calls, url, result, issued, paging >>

\* Mutant: the accepted codes are tested against the first response.
Check_FirstResponse(t) ==
  /\ pc[t] = "check"
  /\ LET first == received[t][1]
         e == V2DiagnosticException(first.content) IN
     IF first.status \notin accepted[t]
     THEN /\ Raise(t, e.exc)
          /\ result' = [result EXCEPT ![t] =
                          IF e.exc = "V2DiagnosticException"
                          THEN Handed(first.status, first, e.diagnostics) ELSE @]
     ELSE /\ pc' = [pc EXCEPT ![t] = "done"]
          /\ outcome' = [outcome EXCEPT ![t] = "returned"]
          /\ result' = [result EXCEPT ![t] = Handed(first.status, first, << >>)]
          /\ flags' = [flags EXCEPT ![t] = << >>]
          /\ auth' = [auth EXCEPT ![t] = NoHeader]
          /\ UNCHANGED << content, token >>
  /\ UNCHANGED << fields, creds, lock, ping, accepted, status, trace, access,
                  exchanges, calls, url, resp, received, issued, paging >>

\* if resp.status not in accepted_codes: raise V2DiagnosticException(resp,
\* content), or whatever its construction raises; return resp, content
Check(t) ==
  /\ pc[t] = "check"
  /\ LET e == V2DiagnosticException(resp[t].content) IN
     IF status[t] \notin accepted[t]
     THEN /\ Raise(t, e.exc)
          /\ result' = [result EXCEPT ![t] =
                          IF e.exc = "V2DiagnosticException"
                          THEN Handed(status[t], resp[t], e.diagnostics) ELSE @]
     ELSE /\ pc' = [pc EXCEPT ![t] = "done"]
          /\ outcome' = [outcome EXCEPT ![t] = "returned"]
          /\ result' = [result EXCEPT ![t] = Handed(status[t], resp[t], << >>)]
          /\ flags' = [flags EXCEPT ![t] = << >>]
          /\ auth' = [auth EXCEPT ![t] = NoHeader]
          /\ UNCHANGED << content, token >>
  /\ UNCHANGED << fields, creds, lock, ping, accepted, status, trace, access,
                  exchanges, calls, url, resp, received, issued, paging >>

\* -------------------------------------------------------- PaginatedRequest
\* A call of PaginatedRequest(url, accepted_codes) on the first page: the
\* generator is created and none of its body has run; next_page stands for url,
\* which the first statement of the body copies into it, and accepted for the
\* accepted_codes it hands to every Request.  The history of the caller's
\* previous call is dropped.
Paginate(t) ==
  /\ pc[Ctor] = "constructed"
  /\ pc[t] \in {"idle", "done"}
  /\ gen[t] \notin {"created", "running", "suspended"}
  /\ calls < MaxCalls
  /\ calls' = calls + 1
  /\ \E acc \in AcceptedSets : accepted' = [accepted EXCEPT ![t] = acc]
  /\ next_page' = [next_page EXCEPT ![t] = 1]
  /\ gen' = [gen EXCEPT ![t] = "created"]
  /\ yielded' = [yielded EXCEPT ![t] = << >>]
  /\ asked' = [asked EXCEPT ![t] = 0]
  /\ pc' = [pc EXCEPT ![t] = "idle"]
  /\ status' = [status EXCEPT ![t] = 0]
  /\ outcome' = [outcome EXCEPT ![t] = "none"]
  /\ trace' = [trace EXCEPT ![t] = << >>]
  /\ access' = [access EXCEPT ![t] = NoAccess]
  /\ received' = [received EXCEPT ![t] = << >>]
  /\ result' = [result EXCEPT ![t] = NoResult]
  /\ UNCHANGED << fields, creds, lock, ping, flags, auth, content, token, exchanges,
                  url, resp, issued >>

\* The consumer asks for the next element.  The generator runs from where it
\* stands, its start or its yield, to the test of `while next_page`: either it
\* calls self.Request(next_page, accepted_codes, ...) or it is exhausted.
NextElement(t) ==
  /\ gen[t] \in {"created", "suspended"}
  /\ asked' = [asked EXCEPT ![t] = @ + 1]
  /\ LET page == IF gen[t] = "created" THEN next_page[t]
                 ELSE ParseNextLinkHeader(resp[t]) IN
     /\ next_page' = [next_page EXCEPT ![t] = page]
     /\ IF page # NoUrl
        THEN /\ gen' = [gen EXCEPT ![t] = "running"]
             /\ url' = [url EXCEPT ![t] = page]
             /\ flags' = [flags EXCEPT ![t] = RetryFlags]
             /\ status' = [status EXCEPT ![t] = 0]
             /\ outcome' = [outcome EXCEPT ![t] = "none"]
             /\ trace' = [trace EXCEPT ![t] = << >>]
             /\ access' = [access EXCEPT ![t] = NoAccess]
             /\ received' = [received EXCEPT ![t] = << >>]
             /\ result' = [result EXCEPT ![t] = NoResult]
             /\ pc' = [pc EXCEPT ![t] = "loop"]
        ELSE /\ gen' = [gen EXCEPT ![t] = "exhausted"]
             /\ UNCHANGED << url, flags, status, outcome, trace, access, received,
                             result, pc >>
  /\ UNCHANGED << fields, creds, lock, ping, accepted, auth, content, token,
                  exchanges, calls, resp, issued, yielded >>

\* yield resp, content: Request has returned and the generator is suspended.
\* The history keeps the page and the network calls its Request made.
Yield(t) ==
  /\ gen[t] = "running"
  /\ pc[t] = "done"
  /\ outcome[t] = "returned"
  /\ gen' = [gen EXCEPT ![t] = "suspended"]
  /\ yielded' = [yielded EXCEPT ![t] =
                   Append(@, [url |-> url[t], attempts |-> Len(Attempts(t)),
                              refreshes |-> Len(Refreshes(t))])]
  /\ UNCHANGED << fields, creds, lock, pc, ping, locals, outcome, trace, access,
                  exchanges, calls, request, issued, next_page, asked >>

\* Request has raised: the exception leaves the generator, which is finished.
Propagate(t) ==
  /\ gen[t] = "running"
  /\ pc[t] = "done"
  /\ outcome[t] # "returned"
  /\ gen' = [gen EXCEPT ![t] = "failed"]
  /\ UNCHANGED << fields, creds, lock, pc, ping, locals, outcome, trace, access,
                  exchanges, calls, request, issued, next_page, yielded, asked >>

\* ---------------------------------------------------------- specifications
Construct ==
  \/ CheckAction
  \/ Ping
  \/ Adopt
  \/ Exchange(Ctor)
  \/ Acquire(Ctor)
  \/ Assign(Ctor)
  \/ Release(Ctor)

Request(t) ==
  \/ Call(t)
  \/ ReadCreds(t)
  \/ Issue(t)
  \/ Exchange(t)
  \/ Acquire(t)
  \/ Assign(t)
  \/ Release(t)
  \/ Check(t)

PaginatedRequest(t) ==
  \/ Paginate(t)
  \/ NextElement(t)
  \/ Yield(t)
  \/ Propagate(t)

\* One caller: construction, then Request and PaginatedRequest calls one after
\* the other.
Caller == 1
Next == Construct \/ Request(Caller) \/ PaginatedRequest(Caller)
Spec == Init /\ [][Next]_vars

\* A constructed Transport over the HTTP client tr, in each mode, as __init__
\* leaves it.
Constructed(tr) ==
  /\ action = PULL
  /\ transport = tr
  /\ \/ /\ authentication = _ANONYMOUS
        /\ realm = "none"
        /\ service = "none"
        /\ creds = AnonymousCreds
        /\ ping = [status |-> OK, challenge |-> NoChallenge, sent |-> PingHeaders]
        /\ exchanges = {}
        /\ trace = [p \in Procs |-> << >>]
        /\ token = [p \in Procs |-> None]
        /\ access = [p \in Procs |-> NoAccess]
     \/ /\ authentication = _BASIC
        /\ realm = Realm1
        /\ service = Service1
        /\ creds = BasicCreds
        /\ ping = [status |-> UNAUTHORIZED, challenge |-> NoChallenge,
                   sent |-> PingHeaders]
        /\ exchanges = {}
        /\ trace = [p \in Procs |-> << >>]
        /\ token = [p \in Procs |-> None]
        /\ access = [p \in Procs |-> NoAccess]
     \/ /\ authentication = _BEARER
        /\ realm = Realm1
        /\ service = Service1
        /\ creds = Bearer("abc")
        /\ ping = [status |-> UNAUTHORIZED, challenge |-> NoChallenge,
                   sent |-> PingHeaders]
        /\ exchanges = {Get(BasicCreds)}
        /\ trace = [p \in Procs |-> IF p = Ctor THEN << RefreshEv(OK) >> ELSE << >>]
        /\ token = [p \in Procs |-> IF p = Ctor THEN "abc" ELSE None]
        /\ access = [p \in Procs |->
                       IF p = Ctor THEN [op |-> "write", locked |-> TRUE]
                       ELSE NoAccess]
  /\ lock = {}
  /\ pc = [p \in Procs |-> IF p = Ctor THEN "constructed" ELSE "idle"]
  /\ flags = [p \in Procs |-> << >>]
  /\ accepted = [p \in Procs |-> {}]
  /\ auth = [p \in Procs |-> NoHeader]
  /\ status = [p \in Procs |-> 0]
  /\ content = [p \in Procs |-> NoContent]
  /\ outcome = [p \in Procs |-> "none"]
  /\ calls = 0
  /\ url = [p \in Procs |-> 1]
  /\ resp = [p \in Procs |-> NoResp]
  /\ received = [p \in Procs |-> << >>]
  /\ result = [p \in Procs |-> NoResult]
  /\ issued = {}
  /\ gen = [p \in Procs |-> "none"]
  /\ next_page = [p \in Procs |-> NoUrl]
  /\ yielded = [p \in Procs |-> << >>]
  /\ asked = [p \in Procs |-> 0]

InitConc == Constructed(Plain)

\* NumThreads threads share the Transport; their Request calls interleave.
NextConc == \E t \in Threads : Request(t)
SpecConc == InitConc /\ [][NextConc]_vars

\* One caller of a constructed Transport whose registry serves a chain of up to
\* MaxPages linked pages: Request calls and paginations, one after the other.
InitPage == \E n \in 1..MaxPages : Constructed(Chain(n))
NextPage == Request(Caller) \/ PaginatedRequest(Caller)
SpecPage == InitPage /\ [][NextPage]_vars

\* One caller of a constructed Transport whose registry answers with any body.
InitBody == Constructed(AnyBody)
NextBody == Request(Caller)
SpecBody == InitBody /\ [][NextBody]_vars

\* ------------------------------------------------------------------ claims
Last(s) == s[Len(s)]
InRefresh(p) == pc[p] \in {"refresh", "lock", "assign", "unlock"}

\* C1: in Bearer mode a Request call makes at most two attempts and at most one
\* token exchange, whatever the registry answers; when both attempts return 401
\* and 401 is not accepted, there was exactly one exchange, no third attempt, and
\* the call ends with V2DiagnosticException.
C1_BoundedRetry ==
  \A t \in Threads :
    authentication = _BEARER =>
      /\ Len(Attempts(t)) <= 2
      /\ Len(Refreshes(t)) <= 1
      /\ ( /\ AttemptStatuses(t) = << UNAUTHORIZED, UNAUTHORIZED >>
           /\ UNAUTHORIZED \notin accepted[t] )
         => /\ Kinds(t) = << "attempt", "refresh", "attempt" >>
            /\ pc[t] \in {"check", "done"}
            /\ pc[t] = "done" => outcome[t] = "V2DiagnosticException"

C1_Witness ==
  \E t \in Threads :
    /\ authentication = _BEARER
    /\ pc[t] = "done"
    /\ AttemptStatuses(t) = << UNAUTHORIZED, UNAUTHORIZED >>
    /\ UNAUTHORIZED \notin accepted[t]
    /\ outcome[t] = "V2DiagnosticException"

\* C2: in Bearer mode a Request whose first attempt returns 401 and whose retry
\* returns 200, with 200 accepted, returns to its caller after exactly the
\* network calls attempt, token exchange, attempt, in that order.
C2_RetrySucceeds ==
  \A t \in Threads :
    ( /\ authentication = _BEARER
      /\ pc[t] = "done"
      /\ Len(Attempts(t)) >= 1
      /\ Attempts(t)[1].status = UNAUTHORIZED
      /\ Last(trace[t]) = Attempt(OK)
      /\ OK \in accepted[t] )
    => /\ outcome[t] = "returned"
       /\ trace[t] = << Attempt(UNAUTHORIZED), RefreshEv(OK), Attempt(OK) >>

C2_Witness ==
  \E t \in Threads :
    /\ authentication = _BEARER
    /\ pc[t] = "done"
    /\ trace[t] = << Attempt(UNAUTHORIZED), RefreshEv(OK), Attempt(OK) >>
    /\ outcome[t] = "returned"

\* C3: in Anonymous or Basic mode a Request makes exactly one attempt whatever
\* its status: no token exchange and no second attempt ever happen, and a 401
\* that is not accepted is terminal: the call ends there, raising to its caller.
C3_NoRetryOutsideBearer ==
  \A t \in Threads :
    authentication \in {_ANONYMOUS, _BASIC} =>
      /\ Len(Attempts(t)) <= 1
      /\ Refreshes(t) = << >>
      /\ ~InRefresh(t)
      /\ pc[t] \in {"check", "done"} => Len(Attempts(t)) = 1
      /\ ( /\ pc[t] = "done"
           /\ status[t] = UNAUTHORIZED
           /\ UNAUTHORIZED \notin accepted[t] )
         => /\ outcome[t] \notin {"none", "returned"}
            /\ trace[t] = << Attempt(UNAUTHORIZED) >>

C3_Witness ==
  \E t \in Threads :
    /\ authentication = _BASIC
    /\ pc[t] = "done"
    /\ trace[t] = << Attempt(UNAUTHORIZED) >>
    /\ UNAUTHORIZED \notin accepted[t]
    /\ outcome[t] = "V2DiagnosticException"

\* C4: for every valid action, once the ping has returned 200 the construction
\* does not fail, the mode is Anonymous with realm and service "none", the
\* credential installed yields an empty header, and no token exchange is made
\* during construction or during any later Request.
C4_AnonymousNeverExchanges ==
  (action \in ACTION_LIST /\ ping.status = OK) =>
    /\ pc[Ctor] \in {"pinged", "constructed"}
    /\ authentication = _ANONYMOUS
    /\ realm = "none"
    /\ service = "none"
    /\ pc[Ctor] = "constructed" => (creds = AnonymousCreds /\ Get(creds) = NoHeader)
    /\ exchanges = {}
    /\ \A p \in Procs : Refreshes(p) = << >> /\ ~InRefresh(p)

C4_Witness ==
  /\ action = CATALOG
  /\ ping.status = OK
  /\ calls = MaxCalls
  /\ pc[Caller] = "done"
  /\ status[Caller] = UNAUTHORIZED
  /\ exchanges = {}

\* C5: the step in which a token exchange is answered with a status other than
\* 200 ends the refresh with TokenRefreshException and leaves self._creds as it
\* was.
C5_FailedRefreshKeepsCreds ==
  [][ \A p \in Procs :
        ( /\ pc[p] = "refresh"
          /\ trace'[p] # trace[p]
          /\ Last(trace'[p]).status # OK )
        => /\ outcome'[p] = "TokenRefreshException"
           /\ pc'[p] \in {"failed", "done"}
           /\ creds' = creds ]_vars

C5_Witness ==
  /\ pc[Caller] = "done"
  /\ outcome[Caller] = "TokenRefreshException"
  /\ trace[Caller] = << Attempt(UNAUTHORIZED), RefreshEv(UNAUTHORIZED) >>
  /\ creds = Bearer(token[Ctor])

\* C6: in Bearer mode, when the first attempt returns 401 and the refresh that
\* follows fails, the call ends there with the refresh's exception: the request
\* is not sent again and no V2DiagnosticException is raised.  A refused token
\* exchange (a status other than 200) ends it with TokenRefreshException.
C6_RefreshErrorPropagates ==
  \A t \in Threads :
    authentication = _BEARER =>
      /\ ( \E i \in 1..Len(trace[t]) :
             trace[t][i].ev = "refresh" /\ trace[t][i].status # OK )
         => /\ trace[t] = << Attempt(UNAUTHORIZED), Last(trace[t]) >>
            /\ pc[t] = "done"
            /\ outcome[t] = "TokenRefreshException"
      /\ ( /\ pc[t] \in {"check", "done"}
           /\ Last(trace[t]).ev = "refresh" )
         => /\ Len(Attempts(t)) = 1
            /\ pc[t] = "done"
            /\ outcome[t] \in {"TokenRefreshException", "ValueError",
                               "AttributeError", "BadStateException"}

C6_Witness ==
  \E t \in Threads :
    /\ authentication = _BEARER
    /\ pc[t] = "done"
    /\ trace[t] = << Attempt(UNAUTHORIZED), RefreshEv(UNAUTHORIZED) >>
    /\ outcome[t] = "TokenRefreshException"
    /\ UNAUTHORIZED \notin accepted[t]

\* C7: a 200 token-exchange response that carries the token under "token", or
\* under "access_token" when there is no "token", installs Bearer(<token>); and
\* the request attempts that follow, the retry of the Request that refreshed
\* first of all, carry the header of that credential, scheme Bearer and the
\* token of the response.
C7_RefreshInstallsBearer ==
  /\ \A p \in Procs :
       (pc[p] = "unlock" /\ content[p].status = OK) =>
         LET b == content[p].body IN
         /\ b.token \notin {None, ""} => creds = Bearer(b.token)
         /\ (b.token = None /\ b.access_token \notin {None, ""})
              => creds = Bearer(b.access_token)
         /\ Get(creds) = [scheme |-> "Bearer", value |-> token[p]]
  /\ \A t \in Threads :
       (authentication = _BEARER /\ pc[t] = "issue") =>
         /\ auth[t] = [scheme |-> "Bearer", value |-> creds.secret]
         /\ Len(trace[t]) = 2 => auth[t] = [scheme |-> "Bearer", value |-> token[t]]

C7_Witness ==
  /\ calls = 1
  /\ pc[Caller] = "issue"
  /\ trace[Caller] = << Attempt(UNAUTHORIZED), RefreshEv(OK) >>
  /\ token[Ctor] = "abc"
  /\ token[Caller] = "xyz"
  /\ auth[Caller] = [scheme |-> "Bearer", value |-> "xyz"]

\* What a challenge carries, read off the response itself.
IsScheme(ch, words) == ch.present /\ ch.space /\ ch.scheme \in words
ParamIdx(ch, pfx) == {i \in DOMAIN ch.params : ch.params[i].pfx = pfx}
Max(S) == CHOOSE x \in S : \A y \in S : y <= x
ParamOr(ch, pfx, default) ==
  IF ParamIdx(ch, pfx) = {} THEN default ELSE ch.params[Max(ParamIdx(ch, pfx))].val

\* C8: a ping answered 401 with a Bearer challenge that has no realm= parameter
\* makes construction fail with BadStateException, without any token exchange.
C8_MissingRealmIsBadState ==
  ( /\ ping.status = UNAUTHORIZED
    /\ IsScheme(ping.challenge, {"Bearer", "bearer", "BEARER"})
    /\ ParamIdx(ping.challenge, _REALM_PFX) = {} )
  => /\ pc[Ctor] = "failed"
     /\ outcome[Ctor] = "BadStateException"
     /\ exchanges = {}

\* C9 as stated: a ping answered 401 with a Basic challenge makes construction
\* succeed in Basic mode with the caller's credential, with or without a realm=
\* parameter, and realm and service are populated from a challenge only in
\* Bearer mode.
C9_BasicIgnoresParameters ==
  /\ (ping.status = UNAUTHORIZED /\ IsScheme(ping.challenge, {"Basic", "basic", "BASIC"}))
       => (pc[Ctor] = "pinged" /\ authentication = _BASIC)
  /\ (pc[Ctor] = "constructed" /\ authentication = _BASIC) => creds = BasicCreds
  /\ authentication # _BEARER => (realm \in {Unset, "none"} /\ service \in {Unset, "none"})

\* C9 as amended: a Basic challenge is scanned like a Bearer one.  With a
\* non-empty realm= construction succeeds in Basic mode, realm and service are
\* taken from the challenge (service defaulting to the registry host), and the
\* caller's credential is adopted without a token exchange; without one,
\* construction fails and no credential is installed.
C9_BasicScansParameters ==
  /\ (ping.status = UNAUTHORIZED /\ IsScheme(ping.challenge, {"Basic", "basic", "BASIC"}))
       => IF ParamOr(ping.challenge, _REALM_PFX, "") # ""
          THEN /\ pc[Ctor] = "pinged"
               /\ authentication = _BASIC
               /\ realm = ParamOr(ping.challenge, _REALM_PFX, "")
               /\ service = ParamOr(ping.challenge, _SERVICE_PFX, Registry)
          ELSE /\ pc[Ctor] = "failed"
               /\ outcome[Ctor] \in {"AttributeError", "BadStateException"}
               /\ creds = NoCreds
  /\ (pc[Ctor] = "constructed" /\ authentication = _BASIC)
       => /\ creds = BasicCreds
          /\ realm \notin {Unset, "", "none"}
          /\ service \notin {Unset, "none"}
  /\ authentication = _BASIC => exchanges = {}

C9_Witness ==
  /\ pc[Ctor] = "constructed"
  /\ authentication = _BASIC
  /\ creds = BasicCreds
  /\ realm = Realm1
  /\ service = Registry
  /\ calls = 1

\* C10: with several threads calling Request, every read and every write of
\* self._creds is made by a thread that holds self._lock.
C10_CredsAccessUnderLock ==
  \A t \in Threads : access[t].op # "none" => access[t].locked

\* C11: when Request calls of several threads in Bearer mode get a 401 and
\* refresh at the same time, in every interleaving each call makes its own token
\* exchange, every retried attempt carries a token that a successful exchange
\* returned, and once no refresh is under way the credential is a bearer token
\* that one of those exchanges returned.
C11_RacingRefreshes ==
  authentication = _BEARER =>
    /\ \A t \in Threads :
         /\ (Len(trace[t]) >= 1 /\ trace[t][1] = Attempt(UNAUTHORIZED))
              => \/ pc[t] = "refresh" /\ Len(trace[t]) = 1
                 \/ Len(trace[t]) >= 2 /\ trace[t][2].ev = "refresh"
         /\ (pc[t] = "issue" /\ Len(trace[t]) = 2)
              => /\ trace[t][2] = RefreshEv(OK)
                 /\ auth[t].scheme = "Bearer"
                 /\ auth[t].value \in issued
    /\ (issued # {} /\ \A t \in Threads : ~InRefresh(t))
         => /\ creds.kind = "Bearer"
            /\ creds.secret \in issued

C11_Witness ==
  /\ authentication = _BEARER
  /\ \A t \in Threads :
       /\ pc[t] = "issue"
       /\ trace[t] = << Attempt(UNAUTHORIZED), RefreshEv(OK) >>
  /\ auth[1].value = "xyz"
  /\ auth[2].value = "abc"
  /\ creds = Bearer("abc")
  /\ issued = {"abc", "xyz"}

\* C12: whether Request returns or fails is decided by the status of the final
\* attempt alone: outside the accepted codes the call fails with a
\* V2DiagnosticException built from the final response and its body, otherwise
\* it returns exactly the final response and body; after a retry the response
\* to the first attempt is not what is returned or reported.
C12_FinalAttemptDecides ==
  \A t \in Threads :
    (pc[t] = "done" /\ trace[t] # << >> /\ Last(trace[t]).ev = "attempt") =>
      LET final == Last(received[t]) IN
      /\ Len(received[t]) = Len(Attempts(t))
      /\ IF final.status \in accepted[t]
         THEN /\ outcome[t] = "returned"
              /\ result[t] = Handed(final.status, final, << >>)
         ELSE /\ outcome[t] = "V2DiagnosticException"
              /\ result[t] = Handed(final.status, final,
                                     _DiagnosticsFromContent(final.content))

\* C13: diagnosis never raises: whatever the body of the final response, a
\* Request whose final status is outside the accepted codes fails with
\* V2DiagnosticException carrying a list of diagnostics, and a body that is not
\* JSON gives exactly one diagnostic, with code "UNKNOWN" and a message that
\* spells the raw body.
C13_DiagnosisNeverRaises ==
  \A t \in Threads :
    ( /\ pc[t] = "done"
      /\ trace[t] # << >>
      /\ Last(trace[t]).ev = "attempt"
      /\ status[t] \notin accepted[t] )
    => /\ outcome[t] = "V2DiagnosticException"
       /\ resp[t].content.json = "invalid"
            => /\ Len(result[t].diagnostics) = 1
               /\ result[t].diagnostics[1].code = Str("UNKNOWN")
               /\ result[t].diagnostics[1].message.text = resp[t].content.text

\* The pages of the chain the registry serves, and sums over the history of a
\* pagination.
NumPages == Len(transport.links)
RECURSIVE SumAttempts(_)
SumAttempts(ys) == IF ys = << >> THEN 0 ELSE Head(ys).attempts + SumAttempts(Tail(ys))
RECURSIVE SumRefreshes(_)
SumRefreshes(ys) == IF ys = << >> THEN 0 ELSE Head(ys).refreshes + SumRefreshes(Tail(ys))
Requesting(t) == gen[t] = "running"

\* C14: over a chain of n linked pages PaginatedRequest yields the n pages in
\* chain order, each the (response, body) that Request returned for it, and
\* then is exhausted; and it is lazy: page k + 1 is requested only when the
\* consumer asks for the element after page k.
C14_PaginationYieldsChain ==
  \A t \in Threads :
    gen[t] # "none" =>
      /\ Len(yielded[t]) <= NumPages
      /\ \A i \in 1..Len(yielded[t]) : yielded[t][i].url = i
      /\ gen[t] = "created" => (asked[t] = 0 /\ yielded[t] = << >>)
      /\ Requesting(t) => /\ asked[t] = Len(yielded[t]) + 1
                          /\ url[t] = asked[t]
                          /\ url[t] <= NumPages
      /\ gen[t] = "suspended" => /\ asked[t] = Len(yielded[t])
                                 /\ pc[t] = "done"
                                 /\ outcome[t] = "returned"
                                 /\ url[t] = Len(yielded[t])
                                 /\ result[t] = Handed(status[t], Last(received[t]), << >>)
      /\ gen[t] = "exhausted" => /\ Len(yielded[t]) = NumPages
                                 /\ asked[t] = NumPages + 1
                                 /\ next_page[t] = NoUrl

C14_Witness ==
  /\ NumPages = MaxPages
  /\ gen[Caller] = "exhausted"
  /\ Len(yielded[Caller]) = MaxPages
  /\ resp[Caller].link = Link(<< LinkTo(MaxPages - 1, "prev") >>)

\* C15: each page of a pagination has its own retry budget: in Bearer mode the
\* Request of every page makes at most two attempts and one refresh, so the
\* pages requested so far, k of them, took at most 2k attempts and k refreshes;
\* and a page whose first attempt gets a 401 refreshes and retries whatever
\* refreshes the pages before it used.
C15_RetryBudgetPerPage ==
  \A t \in Threads :
    (authentication = _BEARER /\ gen[t] # "none") =>
      LET current == IF Requesting(t) THEN 1 ELSE 0
          attempts == SumAttempts(yielded[t]) + current * Len(Attempts(t))
          refreshes == SumRefreshes(yielded[t]) + current * Len(Refreshes(t))
          pages == Len(yielded[t]) + current IN
      /\ \A i \in 1..Len(yielded[t]) :
           /\ yielded[t][i].attempts \in 1..2
           /\ yielded[t][i].refreshes = yielded[t][i].attempts - 1
      /\ attempts <= 2 * pages
      /\ refreshes <= pages
      /\ pages <= NumPages
      /\ (gen[t] = "running" /\ trace[t] # << >> /\ trace[t][1] = Attempt(UNAUTHORIZED))
           => \/ pc[t] = "refresh" /\ Len(trace[t]) = 1
              \/ Len(trace[t]) >= 2 /\ trace[t][2].ev = "refresh"

C15_Witness ==
  /\ authentication = _BEARER
  /\ gen[Caller] = "exhausted"
  /\ Len(yielded[Caller]) = MaxPages
  /\ \A i \in 1..MaxPages :
       yielded[Caller][i].attempts = 2 /\ yielded[Caller][i].refreshes = 1

\* C16: the mode, the realm and the service are assigned by the ping step of
\* construction and by nothing else: once the Transport is constructed, no step
\* of a Request, of a PaginatedRequest or of a refresh, failing or not, changes
\* them.
C16_ModeFixedByPing ==
  [][ /\ << authentication, realm, service >>' # << authentication, realm, service >>
           => (pc[Ctor] = "ping" /\ pc'[Ctor] \in {"pinged", "failed"})
      /\ pc[Ctor] = "constructed"
           => /\ pc'[Ctor] = "constructed"
              /\ << authentication, realm, service >>' = << authentication, realm, service >>
    ]_vars

C16_Witness ==
  /\ authentication = _BEARER
  /\ realm = Realm1
  /\ service = Registry
  /\ calls = MaxCalls
  /\ gen[Caller] = "exhausted"
  /\ outcome[Caller] = "returned"
  /\ issued # {}
  /\ creds # Bearer(token[Ctor])

\* C17: every token exchange, the eager one of construction and each one that
\* follows a 401, is sent with the header of the credential the client
\* supplied, never with the bearer token in use, however many refreshes have
\* replaced the credential.
C17_ExchangeUsesOriginalCredential ==
  /\ exchanges \subseteq {[scheme |-> "Basic", value |-> BasicCreds.secret]}
  /\ \A p \in Procs : Refreshes(p) # << >> => exchanges # {}
  /\ \A h \in exchanges : h.scheme # "Bearer" /\ h # Get(creds)

C17_Witness ==
  /\ calls = MaxCalls
  /\ token[Ctor] = "abc"
  /\ issued = {"abc", "xyz"}
  /\ creds = Bearer("abc")
  /\ pc[Caller] = "done"
  /\ trace[Caller] = << Attempt(UNAUTHORIZED), RefreshEv(OK), Attempt(OK) >>
  /\ exchanges = {Get(BasicCreds)}

\* C18: self._lock is held around the assignment of self._creds only, never
\* while a network call is awaited: a thread waiting for a token exchange or
\* for the response to an attempt does not hold it, and whatever the other
\* threads are doing in _Refresh, a thread in Request can read the credential
\* and send its attempt.
C18_LockOnlyAroundAssignment ==
  /\ Cardinality(lock) <= 1
  /\ \A p \in Procs : p \in lock => pc[p] \in {"assign", "unlock"}
  /\ \A t \in Threads :
       /\ pc[t] \in {"loop", "issue", "refresh", "check"} => t \notin lock
       /\ pc[t] = "loop" => ENABLED ReadCreds(t)
       /\ pc[t] = "issue" => ENABLED Issue(t)

C18_Witness ==
  /\ authentication = _BEARER
  /\ calls = 2
  /\ pc[1] = "refresh"
  /\ trace[1] = << Attempt(UNAUTHORIZED) >>
  /\ pc[2] = "issue"
  /\ access[2] = [op |-> "read", locked |-> FALSE]
  /\ lock = {}

\* C19: in Bearer mode the credential the client supplied goes to the token
\* realm only: the ping carries no Authorization header, and every attempt of
\* every Request carries a bearer token that a successful token exchange
\* returned, never the header of the client's credential.
C19_OriginalCredentialOnlyToRealm ==
  /\ ping.status # 0 => "Authorization" \notin ping.sent
  /\ authentication = _BEARER =>
       /\ pc[Ctor] = "constructed" =>
            (creds.kind = "Bearer" /\ creds.secret \in issued \cup {token[Ctor]})
       /\ \A t \in Threads :
            pc[t] = "issue" =>
              /\ pc[Ctor] = "constructed"
              /\ auth[t].scheme = "Bearer"
              /\ auth[t].value \in issued \cup {token[Ctor]}
              /\ auth[t].value \notin {None, ""}
              /\ auth[t] # Get(BasicCreds)

C19_Witness ==
  /\ authentication = _BEARER
  /\ calls = MaxCalls
  /\ pc[Caller] = "issue"
  /\ trace[Caller] = << Attempt(UNAUTHORIZED), RefreshEv(OK) >>
  /\ auth[Caller] = [scheme |-> "Bearer", value |-> "xyz"]
  /\ token[Ctor] = "abc"
  /\ issued = {"xyz"}
  /\ exchanges = {Get(BasicCreds)}
  /\ ping.sent = {"content-type", "user-agent"}

\* C20: in Bearer mode a first attempt answered 401 is followed by a refresh
\* and one retry whether or not 401 is among the accepted codes: the 401 of the
\* first attempt is never tested against them nor returned, and the test is
\* applied to the final attempt only.
C20_RetryIgnoresAcceptedCodes ==
  \A t \in Threads :
    authentication = _BEARER =>
      /\ (trace[t] # << >> /\ trace[t][1] = Attempt(UNAUTHORIZED))
           => \/ pc[t] = "refresh" /\ Len(trace[t]) = 1
              \/ Len(trace[t]) >= 2 /\ trace[t][2].ev = "refresh"
      /\ pc[t] \in {"check", "done"} => trace[t] # << Attempt(UNAUTHORIZED) >>
      /\ (pc[t] = "done" /\ outcome[t] = "returned")
           => /\ Last(trace[t]).ev = "attempt"
              /\ Last(trace[t]).status \in accepted[t]
              /\ result[t].status = Last(trace[t]).status
      /\ (pc[t] = "done" /\ Last(trace[t]).ev = "attempt"
             /\ Last(trace[t]).status \notin accepted[t])
           => outcome[t] \notin {"none", "returned"}

C20_Witness ==
  /\ authentication = _BEARER
  /\ accepted[Caller] = {OK, UNAUTHORIZED}
  /\ pc[Caller] = "done"
  /\ trace[Caller] = << Attempt(UNAUTHORIZED), RefreshEv(OK), Attempt(UNAUTHORIZED) >>
  /\ outcome[Caller] = "returned"
  /\ result[Caller].status = UNAUTHORIZED

====
